---------------------------- MODULE Spec2Model ----------------------------
(* django-ninja-crud: the view-test harness (CreateModelViewTest and the    *)
(* partial-update request method) run against a viewset's endpoint.        *)
(* One behaviour is one run of a test-suite class: the component sets are  *)
(* supplied once, the host runner calls the test methods one after the     *)
(* other, each test method resolves the component sets against the test    *)
(* case, builds its scenario, dispatches one simulated request and         *)
(* classifies the response.                                                *)
EXTENDS Integers, Sequences, FiniteSets, TLC

VARIABLES
    view,       \* the endpoint under test: [kind, detail, auth]
    supplied,   \* what the author passed to __init__, per dimension
    manager,    \* the ViewTestManager built by __init__ (holds the suppliers)
    fixture,    \* attributes of the live test case
    db,         \* persisted records
    changes,    \* fixture mutations made by set-up code so far
    order,      \* the order in which the runner calls the test methods
    idx,        \* position in the runner's list of test methods
    pc,         \* "idle" | "resolved" | "dispatched" within the current method
    cur,        \* working data of the test method being run
    matrix,     \* scenarios generated so far, in generation order
    log,        \* per test method: what happened
    builds,     \* the matrices of the earlier runs of the suite
    classes,    \* the viewset classes defined so far
    bound,      \* the bind_to_viewset calls made so far
    routes      \* per viewset class: the register_route calls of register_routes

vars == <<view, supplied, manager, fixture, db, changes, order, idx, pc, cur, matrix, log, builds,
          classes, bound, routes>>

-----------------------------------------------------------------------------
(* Bounds *)

\* set-up code mutates the fixture at most this many times in one run
MaxFixtureChanges == 1

-----------------------------------------------------------------------------
(* Values *)

None == "None"

EmptyDict == [k \in {} |-> None]

Dimensions == {"path_parameters", "headers", "payloads"}

\* categories of each component set; "ok" is mandatory
CategoriesOf(dim) ==
    CASE dim = "path_parameters" -> {"ok", "not_found"}
      [] dim = "headers"         -> {"ok", "unauthorized", "forbidden"}
      [] dim = "payloads"        -> {"ok", "bad_request", "conflict"}

\* category -> conventional status code
CategoryStatus(cat) ==
    CASE cat = "bad_request"  -> 400
      [] cat = "conflict"     -> 409
      [] cat = "unauthorized" -> 401
      [] cat = "forbidden"    -> 403
      [] cat = "not_found"    -> 404

\* http.HTTPStatus.CREATED
CREATED == 201

\* success status of the update endpoints
OK == 200


-----------------------------------------------------------------------------
(* The test case (fixture) and the persisted records *)

\* attributes a resolvable value may name on the test case
TestCaseAttrs == {"get_path_parameters", "get_user_payloads"}

\* the test case after setUpTestData: user_1 and user_2 exist
SetUpFixture == [user_1_id |-> 1, user_2_username |-> "user-2"]

SetUpDb ==
    { [id |-> 1, username |-> "user-1", email |-> "user-1@email.com", password |-> "password-1"],
      [id |-> 2, username |-> "user-2", email |-> "user-2@email.com", password |-> "password-2"] }

\* an id no record has
MissingId == 99

Fields == {"username", "email", "password"}

Ids(records) == {r.id : r \in records}

MaxOf(S) == CHOOSE x \in S : \A y \in S : y <= x

Get(records, id) == CHOOSE r \in records : r.id = id

-----------------------------------------------------------------------------
(* Component sets declared by the test-suite author *)

\* the categories a component set declares
Declared(cs) == DOMAIN cs

Only(cs, cats) == [c \in (DOMAIN cs) \cap cats |-> cs[c]]

\* PathParameters(ok={"id": self.user_1.id})
get_path_parameters(self) ==
    ("ok" :> [id |-> self.user_1_id])

\* an author's variants of the path parameters
PathParametersOf(self, decl) ==
    CASE decl = "ok_only"        -> get_path_parameters(self)
      [] decl = "with_not_found" -> get_path_parameters(self) @@ ("not_found" :> [id |-> MissingId])
      [] decl = "wrong_key"      -> ("ok" :> [pk |-> self.user_1_id])

\* faulty variant: the conflict payload names a user that does not exist yet
get_user_payloads_no_duplicate(self) ==
    [ok          |-> [username |-> "new-user", email |-> "user@email.com", password |-> "new-password"],
     bad_request |-> [username |-> "new-user", password |-> "new-password"],
     conflict    |-> [username |-> "other-user", email |-> "user@email.com", password |-> "new-password"]]

\* Payloads(ok=..., bad_request=..., conflict=...) of the user test suite;
\* the conflict payload reads a record of the test case
get_user_payloads(self) ==
    [ok          |-> [username |-> "new-user", email |-> "user@email.com", password |-> "new-password"],
     bad_request |-> [username |-> "new-user", password |-> "new-password"],
     conflict    |-> [username |-> self.user_2_username, email |-> "user@email.com", password |-> "new-password"]]

\* an author's variants of the payloads: which optional categories are
\* declared, and which bad payload
PayloadsOf(self, decl) ==
    LET base == get_user_payloads(self)
        bad  == IF decl.bad = "empty_username" THEN [username |-> ""] ELSE base.bad_request
    IN  Only([base EXCEPT !.bad_request = bad],
             {"ok"} \cup (IF decl.bad = "none" THEN {} ELSE {"bad_request"})
                    \cup (IF decl.conflict THEN {"conflict"} ELSE {}))

\* Headers(ok=..., unauthorized=..., forbidden=...)
HeadersOf(decl) ==
    Only([ok           |-> [HTTP_AUTHORIZATION |-> "admin-token"],
          unauthorized |-> [HTTP_AUTHORIZATION |-> "bad-token"],
          forbidden    |-> [HTTP_AUTHORIZATION |-> "user-token"]],
         {"ok"} \cup decl)

\* a component set by dimension and author's declaration
ComponentSetOf(dim, self, decl) ==
    CASE dim = "path_parameters" -> PathParametersOf(self, decl)
      [] dim = "headers"         -> HeadersOf(decl)
      [] dim = "payloads"        -> PayloadsOf(self, decl)

\* the component set of a dimension that was not supplied: ok is the empty dict
DefaultComponentSet(dim) == ("ok" :> EmptyDict)

-----------------------------------------------------------------------------
(* Resolvable values: a literal, a function of the test case, or the name of *)
(* a property or method of the test case                                     *)

Literal(dim, decl)  == [kind |-> "literal", value |-> ComponentSetOf(dim, SetUpFixture, decl)]
Factory(dim, decl)  == [kind |-> "factory", decl |-> decl]
PropertyRef(name, decl) == [kind |-> "property", name |-> name, decl |-> decl]
NotSupplied         == [kind |-> "none"]

\* resolve(fixture): [error, value]
Resolve(dim, supplier, self) ==
    CASE supplier.kind = "none"     -> [error |-> "none", value |-> DefaultComponentSet(dim)]
      [] supplier.kind = "literal"  -> [error |-> "none", value |-> supplier.value]
      [] supplier.kind = "factory"  -> [error |-> "none", value |-> ComponentSetOf(dim, self, supplier.decl)]
      [] supplier.kind = "property" ->
            IF supplier.name \in TestCaseAttrs
            THEN [error |-> "none", value |-> ComponentSetOf(dim, self, supplier.decl)]
            ELSE [error |-> "ResolutionError", value |-> DefaultComponentSet(dim)]

-----------------------------------------------------------------------------
(* The test object: construction and the request methods *)

\* faulty variant: the payloads are resolved once, at construction, and kept
CreateModelViewTest_init_eager(payloads, path_parameters, headers) ==
    [path_parameters |-> path_parameters, headers |-> headers,
     payloads |-> IF Resolve("payloads", payloads, SetUpFixture).error = "none"
                  THEN [kind |-> "literal",
                        value |-> Resolve("payloads", payloads, SetUpFixture).value]
                  ELSE payloads]

\* CreateModelViewTest.__init__: the suppliers are handed to the
\* ViewTestManager as they are, unresolved
CreateModelViewTest_init(payloads, path_parameters, headers) ==
    [path_parameters |-> path_parameters, headers |-> headers, payloads |-> payloads]

\* the placeholders of the path template of a view
Placeholders(v) ==
    IF v.kind = "partial_update" \/ v.detail THEN {"id"} ELSE {}

\* the verb a view is routed under
MethodOf(v) == IF v.kind = "partial_update" THEN "PATCH" ELSE "POST"

\* path.format(**path_parameters): KeyError when a placeholder has no key;
\* keys that are no placeholder are dropped
Format(placeholders, path_parameters) ==
    IF placeholders \subseteq DOMAIN path_parameters
    THEN [raised |-> "none", args |-> [k \in placeholders |-> path_parameters[k]]]
    ELSE [raised |-> "KeyError", args |-> EmptyDict]

\* faulty variant: the path is sent with whatever keys there are, never raising
request_partial_update_model_unformatted(v, path_parameters, auth_headers, payload) ==
    [raised  |-> "none",
     request |-> [method |-> "PATCH",
                  args |-> [k \in Placeholders(v) \cap DOMAIN path_parameters |-> path_parameters[k]],
                  headers |-> auth_headers, data |-> payload]]

\* faulty variant: the payload is not passed to patch()
request_partial_update_model_no_data(v, path_parameters, auth_headers, payload) ==
    LET path == Format(Placeholders(v), path_parameters)
    IN  [raised  |-> path.raised,
         request |-> [method |-> "PATCH", args |-> path.args,
                      headers |-> auth_headers, data |-> EmptyDict]]

\* TestPartialUpdateModelView.request_partial_update_model: the path is
\* formatted while the arguments of patch() are evaluated, before the call
request_partial_update_model(v, path_parameters, auth_headers, payload) ==
    LET path == Format(Placeholders(v), path_parameters)
    IN  [raised  |-> path.raised,
         request |-> [method |-> "PATCH", args |-> path.args,
                      headers |-> auth_headers, data |-> payload]]

\* the request method of the create view test
simulate_request(v, path_parameters, headers, payload) ==
    LET path == Format(Placeholders(v), path_parameters)
    IN  [raised  |-> path.raised,
         request |-> [method |-> "POST", args |-> path.args,
                      headers |-> headers, data |-> payload]]

\* faulty variant: the request method takes the password out of the payload
\* dict it was given
request_partial_update_model_arguments_popped(path_parameters, auth_headers, payload) ==
    [path_parameters |-> path_parameters, headers |-> auth_headers,
     payload |-> [f \in (DOMAIN payload) \ {"password"} |-> payload[f]]]

\* the dicts handed to request_partial_update_model, as it leaves them:
\* format(**path_parameters) and **auth_headers unpack into new dicts and
\* payload is passed on as data, none is assigned to
request_partial_update_model_arguments(path_parameters, auth_headers, payload) ==
    [path_parameters |-> path_parameters, headers |-> auth_headers, payload |-> payload]

\* the same for the request method of the create view test
simulate_request_arguments(path_parameters, headers, payload) ==
    [path_parameters |-> path_parameters, headers |-> headers, payload |-> payload]

ArgumentsAfter(v, path_parameters, headers, payload) ==
    IF v.kind = "partial_update"
    THEN request_partial_update_model_arguments(path_parameters, headers, payload)
    ELSE simulate_request_arguments(path_parameters, headers, payload)

RequestMethod(v, path_parameters, headers, payload) ==
    IF v.kind = "partial_update"
    THEN request_partial_update_model(v, path_parameters, headers, payload)
    ELSE simulate_request(v, path_parameters, headers, payload)

-----------------------------------------------------------------------------
(* The endpoint under test *)

\* serialize(record, output schema): the output schema has no password
Serialize(rec) == [id |-> rec.id, username |-> rec.username, email |-> rec.email]

Response(status, content, records) ==
    [status |-> status, content |-> content, db |-> records]

\* 0 when the credentials are accepted
Authenticate(v, headers) ==
    IF ~v.auth THEN 0
    ELSE IF "HTTP_AUTHORIZATION" \notin DOMAIN headers THEN 401
    ELSE IF headers.HTTP_AUTHORIZATION = "admin-token" THEN 0
    ELSE IF headers.HTTP_AUTHORIZATION = "user-token" THEN 403
    ELSE 401

NonEmpty(payload) == \A f \in DOMAIN payload : payload[f] # ""

Taken(records, payload, self_id) ==
    /\ "username" \in DOMAIN payload
    /\ \E r \in records : r.id # self_id /\ r.username = payload.username

\* CreateModelView: deserialize, build the record, save it
CreateModelView(v, args, payload, records) ==
    IF ~(DOMAIN payload = Fields /\ NonEmpty(payload))
    THEN Response(400, <<>>, records)
    ELSE IF v.detail /\ args.id \notin Ids(records)
    THEN Response(404, <<>>, records)
    ELSE IF Taken(records, payload, 0)
    THEN Response(409, <<>>, records)
    ELSE LET rec == [id |-> MaxOf(Ids(records)) + 1, username |-> payload.username,
                     email |-> payload.email, password |-> payload.password]
         IN  Response(CREATED, <<Serialize(rec)>>, records \cup {rec})

\* PartialUpdateModelView: only the fields the payload sets are assigned
PartialUpdateModelView(v, args, payload, records) ==
    IF ~(DOMAIN payload \subseteq Fields /\ NonEmpty(payload))
    THEN Response(400, <<>>, records)
    ELSE IF args.id \notin Ids(records)
    THEN Response(404, <<>>, records)
    ELSE IF Taken(records, payload, args.id)
    THEN Response(409, <<>>, records)
    ELSE LET old == Get(records, args.id)
             rec == [f \in DOMAIN old |-> IF f \in DOMAIN payload THEN payload[f] ELSE old[f]]
         IN  Response(OK, <<Serialize(rec)>>, (records \ {old}) \cup {rec})

\* the router: path, verb, then authentication, then the view
Endpoint(v, request, records) ==
    IF ~(Placeholders(v) \subseteq DOMAIN request.args) THEN Response(404, <<>>, records)
    ELSE IF request.method # MethodOf(v) THEN Response(405, <<>>, records)
    ELSE IF Authenticate(v, request.headers) # 0
    THEN Response(Authenticate(v, request.headers), <<>>, records)
    ELSE IF v.kind = "partial_update"
    THEN PartialUpdateModelView(v, request.args, request.data, records)
    ELSE CreateModelView(v, request.args, request.data, records)

-----------------------------------------------------------------------------
(* The assertion hooks of CreateModelViewTest *)

\* on_successful_request: the response body must equal the record it names,
\* fetched again and serialized through the output schema
on_successful_request(response, path_parameters, headers, payload, records) ==
    IF response.content = <<>> THEN "JSONDecodeError"
    ELSE LET actual_output == response.content[1]
         IN  IF actual_output.id \notin Ids(records) THEN "DoesNotExist"
             ELSE IF actual_output = Serialize(Get(records, actual_output.id))
                  THEN "passed" ELSE "AssertionError"

\* on_failed_request: pass
on_failed_request(response, path_parameters, headers, payload, records) == "passed"

Hook(name, response, path_parameters, headers, payload, records) ==
    IF name = "on_successful_request"
    THEN on_successful_request(response, path_parameters, headers, payload, records)
    ELSE on_failed_request(response, path_parameters, headers, payload, records)

-----------------------------------------------------------------------------
(* The test methods of CreateModelViewTest: what each is about (its name),  *)
(* the manager method it calls, the hook and the status it passes (0: none) *)

\* faulty variant: the ok test method passes the default success status
test_create_model_ok_status_ok ==
    [name |-> "test_create_model_ok", dimension |-> "none", category |-> "ok",
     manager |-> "test_view_ok",
     on_completion |-> "on_successful_request", status |-> OK]

test_create_model_ok ==
    [name |-> "test_create_model_ok", dimension |-> "none", category |-> "ok",
     manager |-> "test_view_ok",
     on_completion |-> "on_successful_request", status |-> CREATED]

\* faulty variant: the bad-request test method calls the ok manager method
test_create_model_payloads_bad_request_calls_ok ==
    [name |-> "test_create_model_payloads_bad_request",
     dimension |-> "payloads", category |-> "bad_request",
     manager |-> "test_view_ok",
     on_completion |-> "on_failed_request", status |-> 0]

test_create_model_payloads_bad_request ==
    [name |-> "test_create_model_payloads_bad_request",
     dimension |-> "payloads", category |-> "bad_request",
     manager |-> "test_view_payloads_bad_request",
     on_completion |-> "on_failed_request", status |-> 0]

\* faulty variant: the conflict test method calls the bad-request manager method
test_create_model_payloads_conflict_calls_bad_request ==
    [name |-> "test_create_model_payloads_conflict",
     dimension |-> "payloads", category |-> "conflict",
     manager |-> "test_view_payloads_bad_request",
     on_completion |-> "on_failed_request", status |-> 0]

test_create_model_payloads_conflict ==
    [name |-> "test_create_model_payloads_conflict",
     dimension |-> "payloads", category |-> "conflict",
     manager |-> "test_view_payloads_conflict",
     on_completion |-> "on_failed_request", status |-> 0]

\* faulty variant: the unauthorized test method calls the forbidden manager method
test_create_model_headers_unauthorized_calls_forbidden ==
    [name |-> "test_create_model_headers_unauthorized",
     dimension |-> "headers", category |-> "unauthorized",
     manager |-> "test_view_headers_forbidden",
     on_completion |-> "on_failed_request", status |-> 0]

test_create_model_headers_unauthorized ==
    [name |-> "test_create_model_headers_unauthorized",
     dimension |-> "headers", category |-> "unauthorized",
     manager |-> "test_view_headers_unauthorized",
     on_completion |-> "on_failed_request", status |-> 0]

\* faulty variant: the forbidden test method calls the unauthorized manager method
test_create_model_headers_forbidden_calls_unauthorized ==
    [name |-> "test_create_model_headers_forbidden",
     dimension |-> "headers", category |-> "forbidden",
     manager |-> "test_view_headers_unauthorized",
     on_completion |-> "on_failed_request", status |-> 0]

test_create_model_headers_forbidden ==
    [name |-> "test_create_model_headers_forbidden",
     dimension |-> "headers", category |-> "forbidden",
     manager |-> "test_view_headers_forbidden",
     on_completion |-> "on_failed_request", status |-> 0]

\* faulty variant: the not-found test method calls the ok manager method
test_create_model_path_parameters_not_found_calls_ok ==
    [name |-> "test_create_model_path_parameters_not_found",
     dimension |-> "path_parameters", category |-> "not_found",
     manager |-> "test_view_ok",
     on_completion |-> "on_failed_request", status |-> 0]

test_create_model_path_parameters_not_found ==
    [name |-> "test_create_model_path_parameters_not_found",
     dimension |-> "path_parameters", category |-> "not_found",
     manager |-> "test_view_path_parameters_not_found",
     on_completion |-> "on_failed_request", status |-> 0]

CreateModelViewTest ==
    << test_create_model_ok,
       test_create_model_payloads_bad_request,
       test_create_model_payloads_conflict,
       test_create_model_headers_unauthorized,
       test_create_model_headers_forbidden,
       test_create_model_path_parameters_not_found >>

\* TestPartialUpdateModelView inherits the test methods of the update view
\* test; only the request method is its own
TestPartialUpdateModelView ==
    [i \in 1..Len(CreateModelViewTest) |->
        [CreateModelViewTest[i] EXCEPT
            !.status = IF CreateModelViewTest[i].category = "ok" THEN OK ELSE 0]]

TestMethods(v) ==
    IF v.kind = "partial_update" THEN TestPartialUpdateModelView ELSE CreateModelViewTest

TestNames == {CreateModelViewTest[i].name : i \in 1..Len(CreateModelViewTest)}

-----------------------------------------------------------------------------
(* ViewTestManager: one method per scenario of the matrix *)

\* the dimension a manager method varies and the category it takes there
ManagerScenario(method) ==
    CASE method = "test_view_ok" ->
            [dimension |-> "none", category |-> "ok"]
      [] method = "test_view_payloads_bad_request" ->
            [dimension |-> "payloads", category |-> "bad_request"]
      [] method = "test_view_payloads_conflict" ->
            [dimension |-> "payloads", category |-> "conflict"]
      [] method = "test_view_headers_unauthorized" ->
            [dimension |-> "headers", category |-> "unauthorized"]
      [] method = "test_view_headers_forbidden" ->
            [dimension |-> "headers", category |-> "forbidden"]
      [] method = "test_view_path_parameters_not_found" ->
            [dimension |-> "path_parameters", category |-> "not_found"]

\* the status a manager method asserts
ExpectedStatus(method, status) ==
    IF ManagerScenario(method).category = "ok"
    THEN (IF status = 0 THEN OK ELSE status)
    ELSE CategoryStatus(ManagerScenario(method).category)

\* all three component sets, resolved against the test case, in the order
\* path parameters, headers, payloads
ResolveAll(mgr, self) == [d \in Dimensions |-> Resolve(d, mgr[d], self)]

ResolutionFailed(res) == \E d \in Dimensions : res[d].error # "none"

\* the scenario of a manager method: its dimension at its category, the
\* other dimensions at ok
BuildScenario(res, m) ==
    LET at(d) == res[d].value[IF d = m.dimension THEN m.category ELSE "ok"]
    IN  [pathParams |-> at("path_parameters"), headers |-> at("headers"),
         payload |-> at("payloads"),
         expectedCategory |-> m.category, dimensionUnderTest |-> m.dimension]

\* a component set given as an object is the object every scenario reads: a
\* dict a request method changed is changed in the component set; a function
\* or method of the test case builds new dicts at every resolution
WriteBack(mgr, sc, left) ==
    LET cat(d)  == IF d = sc.dimensionUnderTest THEN sc.expectedCategory ELSE "ok"
        dict(d) == CASE d = "path_parameters" -> left.path_parameters
                     [] d = "headers"         -> left.headers
                     [] d = "payloads"        -> left.payload
    IN  [d \in Dimensions |->
            IF mgr[d].kind = "literal"
            THEN [mgr[d] EXCEPT !.value = [c \in DOMAIN @ |-> IF c = cat(d) THEN dict(d) ELSE @[c]]]
            ELSE mgr[d]]

-----------------------------------------------------------------------------
(* Viewset classes: ninja_crud/views/viewset.py *)

\* what an attribute of a class body may hold
AbstractModelView == "AbstractModelView"    \* a view object
ModelSubclass == "Model"                    \* a subclass of django's Model
SchemaSubclass == "Schema"                  \* a subclass of ninja's Schema
NotAType == "str"                           \* some other value
NoneValue == "None"

object == "object"

\* the attribute names of the class bodies below, as dir() sorts them
AttrNames ==
    << "create_employee", "create_user", "default_input_schema",
       "default_output_schema", "delete_user", "list_employees", "list_users",
       "model", "model_class", "retrieve_user", "update_user" >>

\* the order in which the bodies below declare them
BodyOrder ==
    << "model", "model_class", "default_input_schema", "default_output_schema",
       "list_employees", "list_users", "create_employee", "create_user",
       "retrieve_user", "update_user", "delete_user" >>

\* the body of ModelViewSet: annotations and a classmethod, no value among
\* the attributes above
ModelViewSet == [a \in {} |-> NoneValue]

\* the body of UserViewSet
UserViewSet ==
    [a \in {"model", "list_users", "create_user", "retrieve_user", "update_user",
            "delete_user"} |-> IF a = "model" THEN ModelSubclass ELSE AbstractModelView]

Class(base, attrs, raised, calls) ==
    [base |-> base, attrs |-> attrs, raised |-> raised, calls |-> calls]

RECURSIVE Owner(_, _, _)
\* the class of cls's bases, cls first, whose body holds the attribute
Owner(C, cls, attr_name) ==
    IF cls = object THEN object
    ELSE IF attr_name \in DOMAIN C[cls].attrs THEN cls
    ELSE Owner(C, C[cls].base, attr_name)

hasattr(C, cls, attr_name) == Owner(C, cls, attr_name) # object

getattr(C, cls, attr_name, default) ==
    IF hasattr(C, cls, attr_name)
    THEN C[Owner(C, cls, attr_name)].attrs[attr_name]
    ELSE default

dir(C, cls) == SelectSeq(AttrNames, LAMBDA a : hasattr(C, cls, a))

\* TRUE when ValueError is raised
validate_model_class(C, cls) ==
    \/ ~hasattr(C, cls, "model_class")
    \/ getattr(C, cls, "model_class", NoneValue) # ModelSubclass

validate_schema_class(C, cls, schema_attr_name) ==
    LET schema_attr_value == getattr(C, cls, schema_attr_name, NoneValue)
    IN  /\ schema_attr_value # NoneValue
        /\ schema_attr_value # SchemaSubclass

validate_input_schema_class(C, cls) ==
    validate_schema_class(C, cls, "default_input_schema")

validate_output_schema_class(C, cls) ==
    validate_schema_class(C, cls, "default_output_schema")

Call(op, arg) == [op |-> op, arg |-> arg]

Validations ==
    << "validate_model_class", "validate_input_schema_class",
       "validate_output_schema_class" >>

Raises(C, cls, validation) ==
    CASE validation = "validate_model_class" -> validate_model_class(C, cls)
      [] validation = "validate_input_schema_class" -> validate_input_schema_class(C, cls)
      [] validation = "validate_output_schema_class" -> validate_output_schema_class(C, cls)

\* the views of a class body, in the order of the body
ViewsOf(attrs) ==
    SelectSeq(BodyOrder, LAMBDA a : a \in DOMAIN attrs /\ attrs[a] = AbstractModelView)

\* bind_to_viewset(cls, model_view_name=attr_name), called on the view object
\* that the body of cls created under attr_name
Binding(cls, attr_name) ==
    [view |-> <<cls, attr_name>>, viewset |-> cls, name |-> attr_name]

\* faulty variant: the views are bound first and the class validated after
ModelViewSetMeta_init_binds_first(C, name, bases, attrs) ==
    LET K       == (name :> Class(bases, attrs, FALSE, <<>>)) @@ C
        checks  == IF name # "ModelViewSet" THEN Validations ELSE <<>>
        failing == {i \in 1..Len(checks) : Raises(K, name, checks[i])}
        raised  == failing # {}
        last    == IF raised THEN CHOOSE i \in failing : \A j \in failing : i <= j
                   ELSE Len(checks)
        views   == ViewsOf(attrs)
    IN  [raised |-> raised,
         calls  |-> [i \in 1..Len(views) |-> Call("bind_to_viewset", views[i])]
                    \o [i \in 1..last |-> Call(checks[i], name)],
         bound  |-> [i \in 1..Len(views) |-> Binding(name, views[i])]]

\* ModelViewSetMeta.__init__: the calls it makes, up to the one that raises,
\* and the views it binds
ModelViewSetMeta_init(C, name, bases, attrs) ==
    LET K       == (name :> Class(bases, attrs, FALSE, <<>>)) @@ C
        checks  == IF name # "ModelViewSet" THEN Validations ELSE <<>>
        failing == {i \in 1..Len(checks) : Raises(K, name, checks[i])}
        raised  == failing # {}
        last    == IF raised THEN CHOOSE i \in failing : \A j \in failing : i <= j
                   ELSE Len(checks)
        views   == IF raised THEN <<>> ELSE ViewsOf(attrs)
    IN  [raised |-> raised,
         calls  |-> [i \in 1..last |-> Call(checks[i], name)]
                    \o [i \in 1..Len(views) |-> Call("bind_to_viewset", views[i])],
         bound  |-> [i \in 1..Len(views) |-> Binding(name, views[i])]]

\* ModelViewSet.register_routes: the register_route calls it makes
register_routes(C, cls) ==
    LET views == SelectSeq(dir(C, cls),
                           LAMBDA a : getattr(C, cls, a, NoneValue) = AbstractModelView)
    IN  [i \in 1..Len(views) |->
            [view |-> <<Owner(C, cls, views[i]), views[i]>>,
             name |-> views[i],
             model_class |-> getattr(C, cls, "model_class", "AttributeError")]]

\* the module viewset.py once imported: ModelViewSet is defined
ImportViewset ==
    LET r == ModelViewSetMeta_init(<<>>, "ModelViewSet", object, ModelViewSet)
    IN  [classes |-> ("ModelViewSet" :> Class(object, ModelViewSet, r.raised, r.calls)),
         bound |-> r.bound]

\* the class bodies an author may write for a viewset
Bodies ==
    LET model_class == {<<>>, "model_class" :> ModelSubclass, "model_class" :> NotAType}
        input       == {<<>>, "default_input_schema" :> SchemaSubclass,
                        "default_input_schema" :> NotAType}
        output      == {<<>>, "default_output_schema" :> NoneValue,
                        "default_output_schema" :> NotAType}
        list        == {<<>>, "list_employees" :> AbstractModelView}
        create      == {<<>>, "create_employee" :> AbstractModelView,
                        "create_employee" :> NotAType}
    IN  {m @@ i @@ o @@ l @@ c :
            m \in model_class, i \in input, o \in output, l \in list, c \in create}

AuthorClasses == {"BaseModelViewSet", "DepartmentViewSet"}

Usable == {c \in DOMAIN classes : ~classes[c].raised}

Define(name, bases, attrs) ==
    LET r == ModelViewSetMeta_init(classes, name, bases, attrs)
    IN  /\ classes' = (name :> Class(bases, attrs, r.raised, r.calls)) @@ classes
        /\ bound' = bound \o r.bound

HarnessVars ==
    <<view, supplied, manager, fixture, db, changes, order, idx, pc, cur, matrix,
      log, builds>>

\* a class statement of an author's module
DefineClass ==
    /\ \E name \in AuthorClasses \ DOMAIN classes, bases \in Usable, attrs \in Bodies :
          Define(name, bases, attrs)
    /\ UNCHANGED routes
    /\ UNCHANGED HarnessVars

\* a class statement with the body of UserViewSet (tests/test_app/views/
\* user_views.py), on the ModelViewSet of this module: it sets model, not
\* model_class
DefineUserViewSet ==
    /\ "UserViewSet" \notin DOMAIN classes
    /\ Define("UserViewSet", "ModelViewSet", UserViewSet)
    /\ UNCHANGED routes
    /\ UNCHANGED HarnessVars

\* <class>.register_routes(router), once the class statement has completed
RegisterRoutes ==
    /\ \E cls \in (Usable \ {"ModelViewSet"}) \ DOMAIN routes :
          routes' = (cls :> register_routes(classes, cls)) @@ routes
    /\ UNCHANGED <<classes, bound>>
    /\ UNCHANGED HarnessVars

-----------------------------------------------------------------------------
(* The run of one test-suite class *)

\* the views the suites are run against: the user viewset's create view, a
\* detail create view behind authentication, and the partial-update view
ViewsUnderTest ==
    { [kind |-> "create", detail |-> FALSE, auth |-> FALSE],
      [kind |-> "create", detail |-> TRUE, auth |-> TRUE],
      [kind |-> "partial_update", detail |-> TRUE, auth |-> FALSE] }

PayloadDecls == [bad : {"none", "missing_email", "empty_username"}, conflict : BOOLEAN]

\* what an author may pass as payloads: a Payloads object, a function of the
\* test case, or the name of a method of the test case (one of them misspelt)
PayloadSuppliers ==
    UNION { { Literal("payloads", d), Factory("payloads", d),
              PropertyRef("get_user_payloads", d) } : d \in PayloadDecls }
    \cup { PropertyRef("get_payloads", [bad |-> "missing_email", conflict |-> TRUE]) }

PathParameterSuppliers ==
    {NotSupplied} \cup
    {Factory("path_parameters", d) : d \in {"ok_only", "with_not_found", "wrong_key"}}

HeaderSuppliers ==
    {NotSupplied} \cup
    {Literal("headers", d) : d \in SUBSET {"unauthorized", "forbidden"}}

\* the runner calls the test methods sorted by name, or in the reverse of
\* that when asked to: positions in the class body
RunnerOrders == { <<5, 4, 1, 6, 2, 3>>, <<3, 2, 6, 1, 4, 5>> }

NoCur == [scenario |-> <<>>, response |-> <<>>, dbStart |-> {}]

NoLog ==
    [verdict |-> "pending", raised |-> "none", resolutions |-> <<>>,
     scenarios |-> <<>>, requests |-> <<>>, hooks |-> <<>>]

Init ==
    /\ view \in ViewsUnderTest
    /\ supplied \in [path_parameters : PathParameterSuppliers,
                     headers : HeaderSuppliers,
                     payloads : PayloadSuppliers]
    /\ manager = CreateModelViewTest_init(supplied.payloads, supplied.path_parameters,
                                          supplied.headers)
    /\ fixture = SetUpFixture
    /\ db = SetUpDb
    /\ changes = 0
    /\ order \in RunnerOrders
    /\ idx = 1
    /\ pc = "idle"
    /\ cur = NoCur
    /\ matrix = <<>>
    /\ log = [t \in TestNames |-> NoLog]
    /\ builds = <<>>
    /\ classes = ImportViewset.classes
    /\ bound = ImportViewset.bound
    /\ routes = <<>>

Current == TestMethods(view)[order[idx]]

Running == idx <= Len(TestMethods(view))

Finished == ~Running

\* the name user_2 has after n renames
RenamedTo(n) == IF n % 2 = 1 THEN "user-2b" ELSE "user-2"

\* set-up code between two test methods renames user_2 and saves it
MutateFixture ==
    /\ pc = "idle" /\ Running
    /\ changes < MaxFixtureChanges
    /\ changes' = changes + 1
    /\ fixture' = [fixture EXCEPT !.user_2_username = RenamedTo(changes + 1)]
    /\ db' = {IF r.id = 2 THEN [r EXCEPT !.username = RenamedTo(changes + 1)] ELSE r : r \in db}
    /\ UNCHANGED <<view, supplied, manager, order, idx, pc, cur, matrix, log, builds,
                 classes, bound, routes>>

\* a test method starts: the manager method it calls resolves the component
\* sets and builds its scenario, or skips when the category is not declared
BeginTest ==
    /\ pc = "idle" /\ Running
    /\ LET t   == Current
           m   == ManagerScenario(t.manager)
           res == ResolveAll(manager, fixture)
           rec == [fixture |-> fixture, db |-> db,
                   value |-> [d \in Dimensions |-> res[d].value]]
       IN  IF ResolutionFailed(res)
           THEN /\ log' = [log EXCEPT ![t.name].verdict = "error",
                                      ![t.name].raised = "ResolutionError"]
                /\ idx' = idx + 1
                /\ UNCHANGED <<pc, cur, matrix>>
           ELSE IF m.category # "ok" /\ m.category \notin Declared(res[m.dimension].value)
           THEN /\ log' = [log EXCEPT ![t.name].verdict = "skipped",
                                      ![t.name].resolutions = Append(@, rec)]
                /\ idx' = idx + 1
                /\ UNCHANGED <<pc, cur, matrix>>
           ELSE /\ log' = [log EXCEPT ![t.name].resolutions = Append(@, rec),
                                      ![t.name].scenarios = Append(@, BuildScenario(res, m))]
                /\ matrix' = Append(matrix, BuildScenario(res, m))
                /\ cur' = [scenario |-> BuildScenario(res, m), response |-> <<>>, dbStart |-> db]
                /\ pc' = "resolved"
                /\ UNCHANGED idx
    /\ UNCHANGED <<view, supplied, manager, fixture, db, changes, order, builds,
                 classes, bound, routes>>

\* the scenario is dispatched: the request method formats the path and
\* issues the simulated call
Dispatch ==
    /\ pc = "resolved"
    /\ LET t    == Current
           sc   == cur.scenario
           call == RequestMethod(view, sc.pathParams, sc.headers, sc.payload)
           resp == Endpoint(view, call.request, db)
       IN  IF call.raised # "none"
           THEN /\ log' = [log EXCEPT ![t.name].verdict = "error",
                                      ![t.name].raised = call.raised]
                /\ idx' = idx + 1
                /\ pc' = "idle"
                /\ cur' = NoCur
                /\ UNCHANGED db
           ELSE /\ log' = [log EXCEPT ![t.name].requests =
                              Append(@, [request |-> call.request, status |-> resp.status,
                                         before |-> db, after |-> resp.db])]
                /\ db' = resp.db
                /\ cur' = [cur EXCEPT !.response = [status |-> resp.status, content |-> resp.content]]
                /\ pc' = "dispatched"
                /\ UNCHANGED idx
    /\ manager' = WriteBack(manager, cur.scenario,
                            ArgumentsAfter(view, cur.scenario.pathParams,
                                           cur.scenario.headers, cur.scenario.payload))
    /\ UNCHANGED <<view, supplied, fixture, changes, order, matrix, builds,
                 classes, bound, routes>>

\* the response is classified: the status is asserted, then the hook runs;
\* the test method ends and its transaction is rolled back
Complete ==
    /\ pc = "dispatched"
    /\ LET t     == Current
           sc    == cur.scenario
           match == cur.response.status = ExpectedStatus(t.manager, t.status)
           hook  == Hook(t.on_completion, cur.response, sc.pathParams, sc.headers, sc.payload, db)
       IN  log' = [log EXCEPT
                ![t.name].verdict = IF ~match THEN "failed"
                                    ELSE IF hook = "passed" THEN "passed"
                                    ELSE IF hook = "AssertionError" THEN "failed" ELSE "error",
                ![t.name].raised = IF ~match THEN "AssertionError"
                                   ELSE IF hook = "passed" THEN "none" ELSE hook,
                ![t.name].hooks = IF match
                                  THEN Append(@, [name |-> t.on_completion,
                                                  response |-> cur.response,
                                                  path_parameters |-> sc.pathParams,
                                                  headers |-> sc.headers,
                                                  payload |-> sc.payload])
                                  ELSE @]
    /\ db' = cur.dbStart
    /\ idx' = idx + 1
    /\ pc' = "idle"
    /\ cur' = NoCur
    /\ UNCHANGED <<view, supplied, manager, fixture, changes, order, matrix, builds,
                 classes, bound, routes>>

Next == MutateFixture \/ BeginTest \/ Dispatch \/ Complete

Spec == Init /\ [][Next]_vars

\* the suite is run a second time: the matrix is built again from the
\* component sets the manager holds
Rebuild ==
    /\ Finished /\ pc = "idle"
    /\ builds = <<>>
    /\ builds' = Append(builds, [matrix |-> matrix, changes |-> changes])
    /\ matrix' = <<>>
    /\ idx' = 1
    /\ log' = [t \in TestNames |-> NoLog]
    /\ UNCHANGED <<view, supplied, manager, fixture, db, changes, order, pc, cur,
                 classes, bound, routes>>

NextRebuild == Next \/ Rebuild

SpecRebuild == Init /\ [][NextRebuild]_vars

\* the modules that define viewset classes are imported: no test suite runs
InitViewSet ==
    /\ Init
    /\ view = [kind |-> "create", detail |-> FALSE, auth |-> FALSE]
    /\ supplied = [path_parameters |-> NotSupplied, headers |-> NotSupplied,
                   payloads |-> Literal("payloads", [bad |-> "none", conflict |-> FALSE])]
    /\ order = <<5, 4, 1, 6, 2, 3>>

NextViewSet == DefineClass \/ DefineUserViewSet \/ RegisterRoutes

SpecViewSet == InitViewSet /\ [][NextViewSet]_vars

-----------------------------------------------------------------------------
(* Properties *)

\* the test methods of the suite under test, as a set
Tests == {TestMethods(view)[i] : i \in 1..Len(TestMethods(view))}

\* the test methods that have run to their end
Ended == {TestMethods(view)[order[i]] : i \in 1..(idx - 1)}

\* the categories the author declared for a dimension
DeclaredCats(dim) == Declared(Resolve(dim, supplied[dim], fixture).value)

Resolvable == ~ResolutionFailed(ResolveAll(supplied, fixture))

Indices(seq) == 1..Len(seq)

\* C1: when the run of a suite whose component sets resolve has ended, the
\* matrix holds 1 + the sum over the dimensions of (declared categories - 1)
\* scenarios: exactly one all-ok scenario, exactly one scenario per declared
\* non-ok category of each dimension, and no scenario twice.
C1_ScenarioCount ==
    (Finished /\ Resolvable) =>
        /\ Len(matrix) = 1 + (Cardinality(DeclaredCats("path_parameters")) - 1)
                           + (Cardinality(DeclaredCats("headers")) - 1)
                           + (Cardinality(DeclaredCats("payloads")) - 1)
        /\ \A i, j \in Indices(matrix) : i # j => matrix[i] # matrix[j]
        /\ Cardinality({i \in Indices(matrix) : matrix[i].expectedCategory = "ok"}) = 1
        /\ \A d \in Dimensions : \A c \in DeclaredCats(d) \ {"ok"} :
              Cardinality({i \in Indices(matrix) :
                  matrix[i].dimensionUnderTest = d /\ matrix[i].expectedCategory = c}) = 1

\* a finished run of a suite declaring every category: six scenarios
C1_Witness ==
    /\ Finished /\ Resolvable
    /\ \A d \in Dimensions : DeclaredCats(d) = CategoriesOf(d)
    /\ Len(matrix) = 6

SlotOf(sc, dim) ==
    CASE dim = "path_parameters" -> sc.pathParams
      [] dim = "headers"         -> sc.headers
      [] dim = "payloads"        -> sc.payload

\* C2: the scenario a test method generates carries, in the dimension the
\* method is about, the value of the method's category, and in every other
\* dimension the ok value; the scenario of the ok method carries the ok value
\* in all dimensions, and only that scenario has no dimension under test.
C2_OneDimensionVaried ==
    \A t \in Tests : \A i \in Indices(log[t.name].scenarios) :
        LET sc  == log[t.name].scenarios[i]
            val == log[t.name].resolutions[i].value
        IN  /\ sc.expectedCategory = t.category
            /\ sc.dimensionUnderTest = t.dimension
            /\ (sc.expectedCategory = "ok") <=> (sc.dimensionUnderTest \notin Dimensions)
            /\ \A d \in Dimensions :
                  SlotOf(sc, d) = val[d][IF d = sc.dimensionUnderTest
                                         THEN sc.expectedCategory ELSE "ok"]
            /\ Cardinality({d \in Dimensions : SlotOf(sc, d) # val[d]["ok"]})
                  <= (IF sc.expectedCategory = "ok" THEN 0 ELSE 1)

\* a conflict scenario whose payload differs from the ok payload while path
\* parameters and headers are the ok values
C2_Witness ==
    \E t \in Tests :
        /\ t.category = "conflict"
        /\ log[t.name].scenarios # <<>>
        /\ LET sc  == log[t.name].scenarios[1]
               val == log[t.name].resolutions[1].value
           IN  /\ sc.payload = val["payloads"]["conflict"]
               /\ sc.payload # val["payloads"]["ok"]
               /\ sc.headers = val["headers"]["ok"]
               /\ sc.pathParams = val["path_parameters"]["ok"]

\* C3: a test method about a non-ok category that dispatched its request
\* passes exactly when the response status is the fixed code of its category
\* (400, 409, 401, 403, 404), whichever dimension it varies; with any other
\* status it fails; the mapping gives every non-ok category its code.
C3_FailureStatus ==
    LET code == [bad_request |-> 400, conflict |-> 409, unauthorized |-> 401,
                 forbidden |-> 403, not_found |-> 404]
    IN  /\ \A d \in Dimensions : \A c \in CategoriesOf(d) \ {"ok"} :
              c \in DOMAIN code /\ CategoryStatus(c) = code[c]
        /\ \A t \in Ended :
              (t.category # "ok" /\ log[t.name].requests # <<>>) =>
                  LET st == log[t.name].requests[1].status
                  IN  /\ (log[t.name].verdict = "passed") <=> (st = code[t.category])
                      /\ (st # code[t.category]) => (log[t.name].verdict = "failed")

\* one non-ok test method passed on its code and another failed on a
\* different status
C3_Witness ==
    \E t1, t2 \in Ended :
        /\ t1.category = "conflict" /\ log[t1.name].verdict = "passed"
        /\ log[t1.name].requests[1].status = 409
        /\ t2.category = "bad_request" /\ log[t2.name].verdict = "failed"
        /\ log[t2.name].requests # <<>>
        /\ log[t2.name].requests[1].status # 400

\* C4: for the create view, the ok test method expects 201; its success hook
\* is invoked exactly when the response status is 201, once, with the
\* response and the resolved path parameters, headers and payload that were
\* sent; the success hook is never invoked by a non-ok test method and the
\* failure hook never by the ok test method.
C4_SuccessHook ==
    view.kind = "create" =>
        \A t \in Ended :
            LET l == log[t.name]
            IN  /\ (t.category = "ok" /\ l.requests # <<>>) =>
                      /\ (l.hooks # <<>>) <=> (l.requests[1].status = 201)
                      /\ (l.verdict = "passed") => (l.requests[1].status = 201)
                      /\ Len(l.hooks) <= 1
                      /\ \A i \in Indices(l.hooks) :
                            /\ l.hooks[i].name = "on_successful_request"
                            /\ l.hooks[i].response.status = l.requests[1].status
                            /\ l.hooks[i].path_parameters = l.scenarios[1].pathParams
                            /\ l.hooks[i].headers = l.requests[1].request.headers
                            /\ l.hooks[i].payload = l.requests[1].request.data
                            /\ l.hooks[i].headers = l.resolutions[1].value["headers"]["ok"]
                            /\ l.hooks[i].payload = l.resolutions[1].value["payloads"]["ok"]
                /\ (l.requests = <<>>) => (l.hooks = <<>>)
                /\ (t.category = "ok") =>
                      \A i \in Indices(l.hooks) : l.hooks[i].name # "on_failed_request"
                /\ (t.category # "ok") =>
                      \A i \in Indices(l.hooks) : l.hooks[i].name # "on_successful_request"

\* the ok test method of a create suite got 201 and its success hook ran,
\* and a non-ok test method of the same run called the failure hook
C4_Witness ==
    /\ view.kind = "create"
    /\ \E t \in Ended :
          /\ t.category = "ok"
          /\ log[t.name].verdict = "passed"
          /\ log[t.name].hooks # <<>>
          /\ log[t.name].hooks[1].name = "on_successful_request"
          /\ log[t.name].hooks[1].response.status = 201
    /\ \E t \in Ended :
          /\ t.category # "ok"
          /\ log[t.name].hooks # <<>>
          /\ log[t.name].hooks[1].name = "on_failed_request"

\* C5: a test method about a category its dimension does not declare (the
\* dimension declares only ok, or was not supplied) generates no scenario,
\* dispatches no request, and ends skipped, without failure or error.
C5_AbsentSkipped ==
    \A t \in Ended :
        (Resolvable /\ t.category # "ok" /\ t.category \notin DeclaredCats(t.dimension)) =>
            /\ log[t.name].scenarios = <<>>
            /\ log[t.name].requests = <<>>
            /\ log[t.name].hooks = <<>>
            /\ log[t.name].verdict = "skipped"
            /\ log[t.name].raised = "none"
            /\ \A i \in Indices(matrix) :
                  ~(matrix[i].dimensionUnderTest = t.dimension
                    /\ matrix[i].expectedCategory = t.category)

\* a finished run of a suite that supplies only ok payloads: the ok test
\* method passed and the five others were skipped
C5_Witness ==
    /\ Finished
    /\ supplied.headers = NotSupplied /\ supplied.path_parameters = NotSupplied
    /\ \A t \in Tests :
          log[t.name].verdict = (IF t.category = "ok" THEN "passed" ELSE "skipped")
    /\ Len(matrix) = 1

ConfigurationErrors == {"ResolutionError", "KeyError"}

\* the scenario a test method is about is declared
IsDeclared(t) == t.category = "ok" \/ t.category \in DeclaredCats(t.dimension)

\* the scenario a test method is about was dispatched once and classified
Classified(t) ==
    /\ Len(log[t.name].scenarios) = 1
    /\ log[t.name].scenarios[1].expectedCategory = t.category
    /\ log[t.name].scenarios[1].dimensionUnderTest = t.dimension
    /\ Len(log[t.name].requests) = 1
    /\ log[t.name].verdict \in {"passed", "failed"}

\* C6: a test method that failed on an assertion mismatch does not stop the
\* run: the test method after it can begin, and every other test method
\* that was called was run to its end, each declared scenario among them
\* dispatched once and classified; when the run has ended all test methods
\* were called, wherever the failing one stood.
C6_FailureIsolated ==
    /\ (Running /\ pc = "idle" /\ idx > 1
          /\ log[TestMethods(view)[order[idx - 1]].name].verdict = "failed")
          => ENABLED BeginTest
    /\ \A f \in Ended :
          (log[f.name].verdict = "failed") =>
              /\ \A t \in Ended \ {f} :
                    /\ log[t.name].verdict # "pending"
                    /\ (IsDeclared(t) /\ log[t.name].raised \notin ConfigurationErrors)
                          => Classified(t)
              /\ Finished => Ended = Tests

\* a finished run whose first test method failed and whose last one passed,
\* with a failed one between two passed ones
C6_Witness ==
    /\ Finished
    /\ log[TestMethods(view)[order[1]].name].verdict = "failed"
    /\ log[TestMethods(view)[order[6]].name].verdict = "passed"
    /\ \E i, j, k \in 1..6 :
          /\ i < j /\ j < k
          /\ log[TestMethods(view)[order[i]].name].verdict = "passed"
          /\ log[TestMethods(view)[order[j]].name].verdict = "failed"
          /\ log[TestMethods(view)[order[k]].name].verdict = "passed"

\* what holds of a test method at every moment of a run
C7_Aborted(t) ==
    LET l == log[t.name]
    IN  /\ Len(l.requests) <= 1 /\ Len(l.scenarios) <= 1 /\ Len(l.resolutions) <= 1
        /\ (l.raised \in ConfigurationErrors) =>
              (l.requests = <<>> /\ l.hooks = <<>> /\ l.verdict = "error")
        /\ (t \in Ended /\ ~Resolvable) =>
              (l.raised = "ResolutionError" /\ l.scenarios = <<>> /\ l.requests = <<>>)
        /\ (t \in Ended /\ l.scenarios # <<>>
              /\ ~(Placeholders(view) \subseteq DOMAIN l.scenarios[1].pathParams)) =>
              (l.raised = "KeyError" /\ l.requests = <<>>)

\* C7: a test method whose component sets do not resolve, or whose path
\* parameters lack a placeholder of the path, ends with the configuration
\* error and has dispatched no request; once it has ended so, nothing more
\* happens for it; and no test method dispatches more than one request.
C7_ConfigErrorAborts ==
    /\ [](\A t \in Tests : C7_Aborted(t))
    /\ [][\A t \in Tests :
            (log[t.name].raised \in ConfigurationErrors) => (log'[t.name] = log[t.name])]_vars

\* the partial-update request method raised on a missing placeholder, after
\* the scenario was built and before any request
C7_Witness ==
    /\ view.kind = "partial_update"
    /\ \E t \in Ended :
          /\ log[t.name].raised = "KeyError"
          /\ log[t.name].scenarios # <<>>
          /\ "pk" \in DOMAIN log[t.name].scenarios[1].pathParams
          /\ log[t.name].requests = <<>>

\* every resolution of the component sets made so far, with the test case
\* it was made against
Resolutions ==
    {log[t.name].resolutions[1] : t \in {u \in Tests : log[u.name].resolutions # <<>>}}

Lazy == supplied.payloads.kind \in {"factory", "property"}

\* C8: two resolutions of the same component sets against an equal test
\* case give equal values; a resolution changes neither the test case nor
\* the persisted records; and nothing is cached: what a function of the test
\* case reads (the conflict payload's username) is the test case's value at
\* the time of each resolution.
C8_ResolutionPure ==
    /\ [](\A r1, r2 \in Resolutions : (r1.fixture = r2.fixture) => (r1.value = r2.value))
    /\ [](\A r \in Resolutions :
            (Lazy /\ "conflict" \in Declared(r.value["payloads"])) =>
                r.value["payloads"]["conflict"].username = r.fixture.user_2_username)
    /\ [][BeginTest => (fixture' = fixture /\ db' = db)]_vars

\* three resolutions of payloads given as a function: two against the same
\* test case with equal values, one after the fixture changed with another
C8_Witness ==
    /\ Lazy
    /\ \E r1, r2, r3 \in Resolutions :
          /\ r1 # r3
          /\ r1.fixture = r2.fixture /\ r1.db = r2.db /\ r1.value = r2.value
          /\ r1.fixture # r3.fixture
          /\ "conflict" \in Declared(r1.value["payloads"]) \cap Declared(r3.value["payloads"])
          /\ r1.value["payloads"]["conflict"].username
                # r3.value["payloads"]["conflict"].username
    /\ Cardinality({t \in Tests : log[t.name].resolutions # <<>>}) >= 3

\* C9: after a PATCH answered 200, the record named by the path has the
\* payload's value in every field the payload holds and its former value in
\* every other field, and no other record changed.
C9_PartialUpdatePreserves ==
    view.kind = "partial_update" =>
        \A t \in Tests : \A i \in Indices(log[t.name].requests) :
            LET q == log[t.name].requests[i]
                p == log[t.name].scenarios[i].payload
            IN  (q.status = 200) =>
                    /\ q.request.args.id \in Ids(q.before) \cap Ids(q.after)
                    /\ LET old == Get(q.before, q.request.args.id)
                           new == Get(q.after, q.request.args.id)
                       IN  /\ \A f \in Fields :
                                 new[f] = (IF f \in DOMAIN p THEN p[f] ELSE old[f])
                           /\ q.after \ {new} = q.before \ {old}

\* a PATCH with a payload that lacks a field was answered 200: the fields it
\* holds changed and the field it lacks kept its value
C9_Witness ==
    /\ view.kind = "partial_update"
    /\ \E t \in Tests :
          /\ log[t.name].requests # <<>>
          /\ LET q == log[t.name].requests[1]
                 p == log[t.name].scenarios[1].payload
             IN  /\ q.status = 200
                 /\ DOMAIN p = {"username", "password"}
                 /\ Get(q.after, 1).username = "new-user"
                 /\ Get(q.before, 1).username = "user-1"
                 /\ Get(q.after, 1).email = "user-1@email.com"

C11_ComponentSetsUnchanged ==
    /\ [][supplied' = supplied /\ manager' = manager]_vars
    /\ [](builds # <<>> /\ Finished /\ (changes = 0 \/ ~Lazy)
            => matrix = builds[1].matrix)

C11_Witness ==
    /\ builds # <<>>
    /\ Finished
    /\ Lazy
    /\ Len(matrix) > 1
    /\ matrix = builds[1].matrix
    /\ manager["payloads"] = supplied["payloads"]
    /\ \E t \in Tests : log[t.name].requests # <<>>

\* the bind_to_viewset calls that bound a view to cls under attr_name
BoundAs(cls, attr_name) ==
    {i \in 1..Len(bound) : bound[i].viewset = cls /\ bound[i].name = attr_name}

\* the register_route calls register_routes(cls) made for attr_name
RegisteredAs(cls, attr_name) ==
    {i \in 1..Len(routes[cls]) : routes[cls][i].name = attr_name}

Attributes == {AttrNames[i] : i \in 1..Len(AttrNames)}

RECURSIVE Bases(_)
\* cls and the classes it inherits from
Bases(cls) == IF cls = object THEN {} ELSE {cls} \cup Bases(classes[cls].base)

\* the attribute is a view on cls: the nearest body that declares it, the
\* body of cls or of a class it inherits from, declares a view
ReachableView(cls, a) ==
    \E k \in Bases(cls) :
        /\ a \in DOMAIN classes[k].attrs
        /\ classes[k].attrs[a] = AbstractModelView
        /\ \A j \in Bases(cls) :
              a \in DOMAIN classes[j].attrs => j \in Bases(k)

=============================================================================
